---- MODULE Spec2Model ----
(***************************************************************************)
(* Model of parse_cases.py: the extraction of case records (title, url,    *)
(* published_at) from an HTML page of case cards.                          *)
(*                                                                         *)
(* Text is modelled as Python models it: a str is a sequence of Unicode    *)
(* code points, so cleaning, case folding, regular-expression matching and *)
(* date formatting are computed character by character.                    *)
(***************************************************************************)
EXTENDS Integers, Sequences, FiniteSets, TLC

VARIABLES
    \* normalize_date
    raw,            \* the argument of normalize_date
    normalized,     \* its return value
    dpc,            \* "call" before the call, "done" after it, "idle" otherwise
    \* load_html_source
    input_path, url, fileState, netState, lpc, fetched, fileReads, loaded,
    \* extract_cases
    soup, base_url, nodes, idx, results, seen_links, log, pc

vars == << raw, normalized, dpc,
           input_path, url, fileState, netState, lpc, fetched, fileReads, loaded,
           soup, base_url, nodes, idx, results, seen_links, log, pc >>

dateVars == << raw, normalized, dpc >>
loadVars == << input_path, url, fileState, netState, lpc, fetched, fileReads, loaded >>
caseVars == << soup, base_url, nodes, idx, results, seen_links, log, pc >>

(***************************************************************************)
(* Strings                                                                 *)
(***************************************************************************)

\* Python's None, kept comparable with a str (a sequence of code points):
\* no code point is negative.
None == << -1 >>

\* `if value:` / `if not value:` on an Optional[str].
Truthy(s) == s # None /\ s # << >>

NBSP == 160
THIN_SPACE == 8201
SOFT_HYPHEN == 173
SPACE == 32
HYPHEN == 45
PERIOD == 46
SLASH == 47

\* The code points for which str.isspace() holds: what str.strip() removes
\* and what \s matches in a str pattern.
WhitespaceChars ==
    (9..13) \cup (28..32) \cup {133, 160, 5760} \cup (8192..8202)
        \cup {8232, 8233, 8239, 8287, 12288}

IsSpace(c) == c \in WhitespaceChars

\* \d of a str pattern, over the characters the model feeds it (ASCII digits).
IsDigit(c) == c \in 48..57

\* str.lower() on one code point: Latin and Cyrillic capitals.
LowerChar(c) ==
    IF c \in 65..90 THEN c + 32
    ELSE IF c \in 1040..1071 THEN c + 32
    ELSE IF c \in 1024..1039 THEN c + 80
    ELSE c

Lower(s) == [i \in 1..Len(s) |-> LowerChar(s[i])]

\* str.strip()
Strip(s) ==
    LET keep == {i \in 1..Len(s) : ~IsSpace(s[i])}
    IN IF keep = {} THEN << >>
       ELSE LET lo == CHOOSE i \in keep : \A j \in keep : i <= j
                hi == CHOOSE i \in keep : \A j \in keep : j <= i
            IN SubSeq(s, lo, hi)

\* str.rstrip(".")
RStripPeriod(s) ==
    LET keep == {i \in 1..Len(s) : s[i] # PERIOD}
    IN IF keep = {} THEN << >>
       ELSE SubSeq(s, 1, CHOOSE i \in keep : \A j \in keep : j <= i)

ReplaceChar(s, from, to) == [i \in 1..Len(s) |-> IF s[i] = from THEN to ELSE s[i]]

RemoveChar(s, c) == SelectSeq(s, LAMBDA x : x # c)

\* _clean_text: NBSP and thin space become a space, soft hyphens are removed,
\* then the ends are stripped.
_clean_text(value) ==
    Strip(RemoveChar(ReplaceChar(ReplaceChar(value, NBSP, SPACE), THIN_SPACE, SPACE),
                     SOFT_HYPHEN))

RECURSIVE ParseInt(_)
\* int() of a string of ASCII digits
ParseInt(s) ==
    IF s = << >> THEN 0
    ELSE 10 * ParseInt(SubSeq(s, 1, Len(s) - 1)) + (s[Len(s)] - 48)

Digit(n) == 48 + n

Pad2(n) == << Digit(n \div 10), Digit(n % 10) >>

Pad4(n) == << Digit(n \div 1000), Digit((n \div 100) % 10),
              Digit((n \div 10) % 10), Digit(n % 10) >>

(***************************************************************************)
(* Dates                                                                   *)
(***************************************************************************)

MONTH_ALIASES ==
        1 :> { <<1103,1085,1074,1072,1088,1100>>, <<1103,1085,1074,1072,1088,1103>>,   \* "январь", "января"
               <<1103,1085,1074>> }   \* "янв"
    @@  2 :> { <<1092,1077,1074,1088,1072,1083,1100>>, <<1092,1077,1074,1088,1072,1083,1103>>,   \* "февраль", "февраля"
               <<1092,1077,1074>>, <<1092,1077,1074,1088>> }   \* "фев", "февр"
    @@  3 :> { <<1084,1072,1088,1090>>, <<1084,1072,1088,1090,1072>>, <<1084,1072,1088>> }   \* "март", "марта", "мар"
    @@  4 :> { <<1072,1087,1088,1077,1083,1100>>, <<1072,1087,1088,1077,1083,1103>>,   \* "апрель", "апреля"
               <<1072,1087,1088>> }   \* "апр"
    @@  5 :> { <<1084,1072,1081>>, <<1084,1072,1103>> }   \* "май", "мая"
    @@  6 :> { <<1080,1102,1085,1100>>, <<1080,1102,1085,1103>>, <<1080,1102,1085>> }   \* "июнь", "июня", "июн"
    @@  7 :> { <<1080,1102,1083,1100>>, <<1080,1102,1083,1103>>, <<1080,1102,1083>> }   \* "июль", "июля", "июл"
    @@  8 :> { <<1072,1074,1075,1091,1089,1090>>, <<1072,1074,1075,1091,1089,1090,1072>>,   \* "август", "августа"
               <<1072,1074,1075>> }   \* "авг"
    @@  9 :> { <<1089,1077,1085,1090,1103,1073,1088,1100>>,   \* "сентябрь"
               <<1089,1077,1085,1090,1103,1073,1088,1103>>,   \* "сентября"
               <<1089,1077,1085>>, <<1089,1077,1085,1090>> }   \* "сен", "сент"
    @@ 10 :> { <<1086,1082,1090,1103,1073,1088,1100>>, <<1086,1082,1090,1103,1073,1088,1103>>,   \* "октябрь", "октября"
               <<1086,1082,1090>> }   \* "окт"
    @@ 11 :> { <<1085,1086,1103,1073,1088,1100>>, <<1085,1086,1103,1073,1088,1103>>,   \* "ноябрь", "ноября"
               <<1085,1086,1103>>, <<1085,1086,1103,1073>> }   \* "ноя", "нояб"
    @@ 12 :> { <<1076,1077,1082,1072,1073,1088,1100>>, <<1076,1077,1082,1072,1073,1088,1103>>,   \* "декабрь", "декабря"
               <<1076,1077,1082>> }   \* "дек"

\* value.strip().lower().replace("ё", "е").rstrip(".")
_normalize_month_token(value) ==
    RStripPeriod(ReplaceChar(Lower(Strip(value)), 1105, 1077))

\* MONTHS_RU.get(name): the month number, or 0 for a name the table lacks
\* (Python's None; both are falsy in `if month:`).
MONTHS_RU(name) ==
    LET hits == {m \in DOMAIN MONTH_ALIASES :
                    \E alias \in MONTH_ALIASES[m] : _normalize_month_token(alias) = name}
    IN IF hits = {} THEN 0 ELSE CHOOSE m \in hits : TRUE

IsLeap(y) == (y % 4 = 0 /\ y % 100 # 0) \/ y % 400 = 0

DaysInMonth(y, m) ==
    IF m = 2 THEN (IF IsLeap(y) THEN 29 ELSE 28)
    ELSE IF m \in {4, 6, 9, 11} THEN 30 ELSE 31

\* datetime(year, month, day) does not raise ValueError
ValidDate(y, m, d) ==
    /\ y \in 1..9999
    /\ m \in 1..12
    /\ d \in 1..DaysInMonth(y, m)

\* datetime(year, month, day).strftime("%Y-%m-%d"), or None on ValueError.
\* (Years are drawn from 1000..9999 or 0: the width %Y gives a smaller year
\* depends on the C library.)
FormatDate(y, m, d) ==
    IF ValidDate(y, m, d)
    THEN Pad4(y) \o << HYPHEN >> \o Pad2(m) \o << HYPHEN >> \o Pad2(d)
    ELSE None

AllDigits(s, from, n) ==
    /\ from >= 1
    /\ from + n - 1 <= Len(s)
    /\ \A i \in from..(from + n - 1) : IsDigit(s[i])

CharAt(s, i) == IF i \in 1..Len(s) THEN s[i] ELSE 0 - 1

\* ISO_DATE_RE = ^(\d{4})-(\d{2})-(\d{2})
IsoMatch(value) ==
    /\ AllDigits(value, 1, 4) /\ CharAt(value, 5) = HYPHEN
    /\ AllDigits(value, 6, 2) /\ CharAt(value, 8) = HYPHEN
    /\ AllDigits(value, 9, 2)

\* DOT_DATE_RE = ^(\d{1,2})[./](\d{1,2})[./](\d{4}).  A digit is no separator,
\* so the lengths of the day and month groups are decided by where the
\* separators stand.  The set of <<dayLen, monthLen>> that match (at most one).
DotMatches(value) ==
    {g \in (1..2) \X (1..2) :
        /\ AllDigits(value, 1, g[1])
        /\ CharAt(value, g[1] + 1) \in {PERIOD, SLASH}
        /\ AllDigits(value, g[1] + 2, g[2])
        /\ CharAt(value, g[1] + g[2] + 2) \in {PERIOD, SLASH}
        /\ AllDigits(value, g[1] + g[2] + 3, 4)}

DotMatch(value) == DotMatches(value) # {}

DotGroups(value) ==
    LET g == CHOOSE x \in DotMatches(value) : TRUE
    IN [day   |-> ParseInt(SubSeq(value, 1, g[1])),
        month |-> ParseInt(SubSeq(value, g[1] + 2, g[1] + g[2] + 1)),
        year  |-> ParseInt(SubSeq(value, g[1] + g[2] + 3, g[1] + g[2] + 6))]

\* [А-Яа-яёЁ.\-] under re.IGNORECASE
MonthChars == (1040..1103) \cup {1025, 1105, PERIOD, HYPHEN}

\* The end (exclusive) of the longest run of characters of one class that
\* starts at position i: what a greedy + takes.
RunEnd(s, i, class) ==
    CHOOSE k \in i..(Len(s) + 1) :
        /\ \A j \in i..(k - 1) : s[j] \in class
        /\ (k = Len(s) + 1 \/ s[k] \notin class)

\* RUSSIAN_TEXT_DATE_RE =
\*   (\d{1,2})\s+([А-Яа-яёЁ.\-]+)\s+(\d{4})(?:\s*(?:г(?:\.|ода)?))?
\* The matches that start at position i, as the length of the day group.
\* Digits, whitespace and month characters are disjoint classes and every
\* group is followed by one of another class, so each + takes its whole run,
\* backtracking finds nothing else and a start position has at most one
\* match; the optional year suffix changes only where the match ends.
RuMatchesAt(value, i) ==
    {dayLen \in 1..2 :
        LET a == i + dayLen                         \* first whitespace
            b == RunEnd(value, a, WhitespaceChars)          \* month word
            c == RunEnd(value, b, MonthChars)      \* second whitespace
            d == RunEnd(value, c, WhitespaceChars)          \* year
        IN /\ AllDigits(value, i, dayLen)
           /\ a <= Len(value) /\ b > a /\ c > b /\ d > c
           /\ AllDigits(value, d, 4)}

RuStarts(value) == {i \in 1..Len(value) : RuMatchesAt(value, i) # {}}

RuMatch(value) == RuStarts(value) # {}

RuGroupsAt(value, i) ==
    LET dayLen == CHOOSE x \in RuMatchesAt(value, i) : TRUE
        b == RunEnd(value, i + dayLen, WhitespaceChars)
        c == RunEnd(value, b, MonthChars)
        d == RunEnd(value, c, WhitespaceChars)
    IN [day   |-> ParseInt(SubSeq(value, i, i + dayLen - 1)),
        month |-> SubSeq(value, b, c - 1),
        year  |-> ParseInt(SubSeq(value, d, d + 3))]

\* re.search: the leftmost match.
RuGroups(value) ==
    RuGroupsAt(value, CHOOSE i \in RuStarts(value) : \A j \in RuStarts(value) : i <= j)

\* The Russian branch of normalize_date.
RuResult(value) ==
    LET g == RuGroups(value)
        month == MONTHS_RU(_normalize_month_token(g.month))
    IN IF month # 0 THEN FormatDate(g.year, month, g.day) ELSE None

\* the dotted branch handing a date that fails validation on to the Russian grammar
DotResultFallsThrough(value) ==
    LET g == DotGroups(value)
    IN IF ValidDate(g.year, g.month, g.day) THEN FormatDate(g.year, g.month, g.day)
       ELSE IF RuMatch(value) THEN RuResult(value)
       ELSE None

\* The dotted branch of normalize_date.
DotResult(value) ==
    LET g == DotGroups(value) IN FormatDate(g.year, g.month, g.day)

\* The ISO branch: the three groups joined by hyphens, as they stand.
IsoResult(value) ==
    SubSeq(value, 1, 4) \o << HYPHEN >> \o SubSeq(value, 6, 7) \o << HYPHEN >>
        \o SubSeq(value, 9, 10)

normalize_date(r) ==
    IF ~Truthy(r) THEN None
    ELSE LET value == _clean_text(r)
         IN IF value = << >> THEN None
            ELSE IF IsoMatch(value) THEN IsoResult(value)
            ELSE IF DotMatch(value) THEN DotResult(value)
            ELSE IF RuMatch(value) THEN RuResult(value)
            ELSE None


(***************************************************************************)
(* The parsed document                                                     *)
(*                                                                         *)
(* soup is the sequence of the document's nodes in document order.  A node *)
(* is an element (a Tag: its name, its attributes) or a text node (tag     *)
(* "#text": its string); parent is the index of the parent, 0 for the      *)
(* document itself.  A str attribute is a string, the multi-valued class   *)
(* attribute the sequence of its tokens.                                   *)
(***************************************************************************)

NoAttrs == [a \in {} |-> << >>]

Elem(tag, parent, attrs) == [tag |-> tag, parent |-> parent, attrs |-> attrs, text |-> << >>]

TextNode(parent, s) == [tag |-> "#text", parent |-> parent, attrs |-> NoAttrs, text |-> s]

IsTag(node) == node.tag # "#text"

\* tag.get(name) for a str attribute
Get(node, name) == IF name \in DOMAIN node.attrs THEN node.attrs[name] ELSE None

\* _iter_strings(tag.get("class")): the tokens, none when the attribute is absent
ClassTokens(node) == IF "class" \in DOMAIN node.attrs THEN node.attrs["class"] ELSE << >>

RECURSIVE Join(_, _)
\* sep.join(strings)
Join(strings, sep) ==
    IF strings = << >> THEN << >>
    ELSE IF Len(strings) = 1 THEN strings[1]
    ELSE strings[1] \o sep \o Join(Tail(strings), sep)

\* needle in hay
Contains(hay, needle) ==
    \E i \in 0..(Len(hay) - Len(needle)) : SubSeq(hay, i + 1, i + Len(needle)) = needle

StartsWith(s, prefix) == Len(s) >= Len(prefix) /\ SubSeq(s, 1, Len(prefix)) = prefix

RECURSIVE Ancestors(_, _)
\* the indices of the ancestors of node j
Ancestors(doc, j) ==
    IF doc[j].parent = 0 THEN {}
    ELSE {doc[j].parent} \cup Ancestors(doc, doc[j].parent)

Indices(doc) == [k \in 1..Len(doc) |-> k]

\* tag.find_all(True): the descendant elements of node i, in document order
DescendantTags(doc, i) ==
    SelectSeq(Indices(doc), LAMBDA j : IsTag(doc[j]) /\ i \in Ancestors(doc, j))

\* the descendant text nodes of node i, in document order
DescendantStrings(doc, i) ==
    SelectSeq(Indices(doc), LAMBDA j : ~IsTag(doc[j]) /\ i \in Ancestors(doc, j))

\* tag.get_text(): the descendant strings, concatenated
get_text(doc, i) ==
    LET strs == DescendantStrings(doc, i)
    IN Join([k \in 1..Len(strs) |-> doc[strs[k]].text], << >>)

\* tag.get_text(" ", strip=True): every descendant string stripped, the empty
\* ones dropped, the rest joined by one space
get_text_stripped(doc, i) ==
    LET strs == DescendantStrings(doc, i)
        stripped == [k \in 1..Len(strs) |-> Strip(doc[strs[k]].text)]
    IN Join(SelectSeq(stripped, LAMBDA s : s # << >>), << SPACE >>)

(***************************************************************************)
(* CSS selectors, as far as the program uses them: an optional tag name    *)
(* and an optional attribute test (= equality, *= substring, ~= one of the *)
(* whitespace-separated tokens, the class selector).                       *)
(***************************************************************************)

AttrEq(name, value)       == [tag |-> "*", attr |-> name, op |-> "=", value |-> value]
AttrContains(name, value) == [tag |-> "*", attr |-> name, op |-> "*=", value |-> value]
ClassIs(token)            == [tag |-> "*", attr |-> "class", op |-> "~=", value |-> token]
TagIs(tag)                == [tag |-> tag, attr |-> "", op |-> "", value |-> << >>]
TagAttrContains(tag, name, value) ==
    [tag |-> tag, attr |-> name, op |-> "*=", value |-> value]

\* the value an attribute selector sees: the tokens of class joined by spaces
AttrValue(node, name) ==
    IF name = "class" THEN Join(ClassTokens(node), << SPACE >>) ELSE node.attrs[name]

Matches(node, sel) ==
    /\ IsTag(node)
    /\ sel.tag \in {"*", node.tag}
    /\ \/ sel.op = ""
       \/ /\ sel.attr \in DOMAIN node.attrs
          /\ \/ sel.op = "=" /\ AttrValue(node, sel.attr) = sel.value
             \/ sel.op = "*=" /\ sel.value # << >>
                              /\ Contains(AttrValue(node, sel.attr), sel.value)
             \/ sel.op = "~=" /\ \E k \in 1..Len(ClassTokens(node)) :
                                     ClassTokens(node)[k] = sel.value

\* soup.select(selector): every matching element, in document order
select(doc, sel) == SelectSeq(Indices(doc), LAMBDA j : Matches(doc[j], sel))

\* container.select_one(selector): the first matching descendant, 0 for None
select_one(doc, i, sel) ==
    LET hits == SelectSeq(DescendantTags(doc, i), LAMBDA j : Matches(doc[j], sel))
    IN IF hits = << >> THEN 0 ELSE hits[1]


(***************************************************************************)
(* The card locator                                                        *)
(***************************************************************************)

RECURSIVE FirstNonEmpty(_)
\* the first non-empty sequence of a sequence of sequences, << >> if none
FirstNonEmpty(seqs) ==
    IF seqs = << >> THEN << >>
    ELSE IF seqs[1] # << >> THEN seqs[1]
    ELSE FirstNonEmpty(Tail(seqs))

\* '[data-testid="case-card"]', ".CaseCard", 'a[href*="/cases/"]'
CaseSelectors ==
    << AttrEq("data-testid", <<99,97,115,101,45,99,97,114,100>>),   \* "case-card"
       ClassIs(<<67,97,115,101,67,97,114,100>>),   \* "CaseCard"
       TagAttrContains("a", "href", <<47,99,97,115,101,115,47>>) >>   \* "/cases/"

\* every selector's matches joined, in selector order
find_case_nodesMerged(doc) ==
    Join([k \in 1..Len(CaseSelectors) |-> select(doc, CaseSelectors[k])], << >>)

find_case_nodes(doc) ==
    FirstNonEmpty([k \in 1..Len(CaseSelectors) |-> select(doc, CaseSelectors[k])])

(***************************************************************************)
(* The title                                                               *)
(***************************************************************************)

\* подробнее, читать кейс, читать кейс полностью, читать подробнее, узнать больше
GENERIC_TITLE_STRINGS ==
    { <<1087,1086,1076,1088,1086,1073,1085,1077,1077>>,   \* "подробнее"
      <<1095,1080,1090,1072,1090,1100,32,1082,1077,1081,1089>>,   \* "читать кейс"
      <<1095,1080,1090,1072,1090,1100,32,1082,1077,1081,1089,32,1087,1086,1083,1085,1086,1089,1090,1100,1102>>,   \* "читать кейс полностью"
      <<1095,1080,1090,1072,1090,1100,32,1087,1086,1076,1088,1086,1073,1085,1077,1077>>,   \* "читать подробнее"
      <<1091,1079,1085,1072,1090,1100,32,1073,1086,1083,1100,1096,1077>> }   \* "узнать больше"

\* without the test against GENERIC_TITLE_STRINGS
_normalize_title_textAnyPhrase(value) ==
    IF ~Truthy(value) THEN None
    ELSE IF _clean_text(value) = << >> THEN None
    ELSE _clean_text(value)

_normalize_title_text(value) ==
    IF ~Truthy(value) THEN None
    ELSE LET text == _clean_text(value)
         IN IF text = << >> THEN None
            ELSE IF Lower(text) \in GENERIC_TITLE_STRINGS THEN None
            ELSE text

RECURSIVE FirstTruthy(_)
\* the first value a `for ...: if value: return value` loop returns, else None
FirstTruthy(values) ==
    IF values = << >> THEN None
    ELSE IF Truthy(values[1]) THEN values[1]
    ELSE FirstTruthy(Tail(values))

TitleSelectors ==
    << AttrEq("data-testid", <<99,97,115,101,45,99,97,114,100,45,116,105,116,108,101>>),   \* "case-card-title"
       AttrEq("itemprop", <<104,101,97,100,108,105,110,101>>),   \* "headline"
       AttrEq("itemprop", <<110,97,109,101>>),   \* "name"
       AttrContains("class", <<99,97,115,101,45,99,97,114,100,95,116,105,116,108,101>>),   \* "case-card_title"
       AttrContains("class", <<67,97,115,101,67,97,114,100,95,95,116,105,116,108,101>>),   \* "CaseCard__title"
       ClassIs(<<67,97,115,101,67,97,114,100,95,95,116,105,116,108,101>>),   \* "CaseCard__title"
       ClassIs(<<118,107,117,105,72,101,97,100,108,105,110,101>>),   \* "vkuiHeadline"
       TagIs("h1"),
       TagIs("h3"),
       TagIs("h2") >>

TitleAttrs == << "title", "aria-label", "aria-labelledby", "data-title" >>

\* the title of element j: _normalize_title_text(candidate.get_text(" ", strip=True))
TitleOfTag(doc, j) == _normalize_title_text(get_text_stripped(doc, j))

\* first loop: for each selector, the title of the element select_one returns
SelectorTitles(doc, container) ==
    [k \in 1..Len(TitleSelectors) |->
        LET candidate == select_one(doc, container, TitleSelectors[k])
        IN IF candidate # 0 THEN TitleOfTag(doc, candidate) ELSE None]

\* second loop: the attributes of the link
LinkAttrTitles(doc, link) ==
    [k \in 1..Len(TitleAttrs) |-> _normalize_title_text(Get(doc[link], TitleAttrs[k]))]

\* third loop: the test a descendant passes before its text is tried
LooksLikeHeading(doc, j) ==
    LET candidate == doc[j]
        role == Lower(IF Truthy(Get(candidate, "role")) THEN Get(candidate, "role") ELSE << >>)
        class_tokens == Lower(Join(ClassTokens(candidate), << SPACE >>))
        data_test_id == Lower(IF Truthy(Get(candidate, "data-testid"))
                              THEN Get(candidate, "data-testid") ELSE << >>)
    IN /\ candidate.tag # "button"
       /\ \A a \in Ancestors(doc, j) : doc[a].tag # "button"
       /\ role # <<98,117,116,116,111,110>>   \* "button"
       /\ \/ candidate.tag \in {"h1", "h2", "h3", "h4"}
          \/ Contains(class_tokens, <<116,105,116,108,101>>)   \* "title"
          \/ Contains(class_tokens, <<104,101,97,100,108,105,110,101>>)   \* "headline"
          \/ Contains(data_test_id, <<116,105,116,108,101>>)   \* "title"

HeadingTitles(doc, container) ==
    LET cands == SelectSeq(DescendantTags(doc, container), LAMBDA j : LooksLikeHeading(doc, j))
    IN [k \in 1..Len(cands) |-> TitleOfTag(doc, cands[k])]

extract_title(doc, container, link) ==
    FirstTruthy(SelectorTitles(doc, container) \o LinkAttrTitles(doc, link)
                    \o HeadingTitles(doc, container))

(***************************************************************************)
(* The date                                                                *)
(***************************************************************************)

\* the text before the attribute
TimeTextsTextFirst(doc, j) ==
    LET attr == Get(doc[j], "datetime")
        text == _clean_text(get_text(doc, j))
    IN (IF text # << >> THEN << text >> ELSE << >>)
        \o (IF attr # None /\ _clean_text(attr) # << >> THEN << _clean_text(attr) >> ELSE << >>)

\* what one <time> element yields: its datetime attribute, then its text
TimeTexts(doc, j) ==
    LET attr == Get(doc[j], "datetime")
        text == _clean_text(get_text(doc, j))
    IN (IF attr # None /\ _clean_text(attr) # << >> THEN << _clean_text(attr) >> ELSE << >>)
        \o (IF text # << >> THEN << text >> ELSE << >>)

\* second loop of iter_date_texts: 'date' in the class list or the test id
HasDateMarker(node) ==
    LET attrs == Lower(Join(ClassTokens(node), << SPACE >>))
        data_test_id == Lower(IF Truthy(Get(node, "data-testid"))
                              THEN Get(node, "data-testid") ELSE << >>)
    IN Contains(attrs, <<100,97,116,101>>) \/ Contains(data_test_id, <<100,97,116,101>>)   \* "date", "date"

iter_date_texts(doc, container) ==
    LET tags  == DescendantTags(doc, container)
        times == SelectSeq(tags, LAMBDA j : doc[j].tag = "time")
        dated == SelectSeq(tags, LAMBDA j : HasDateMarker(doc[j]))
        texts == [k \in 1..Len(dated) |-> _clean_text(get_text(doc, dated[k]))]
    IN Join([k \in 1..Len(times) |-> TimeTexts(doc, times[k])], << >>)
        \o SelectSeq(texts, LAMBDA s : s # << >>)

extract_date(doc, container) ==
    LET values == iter_date_texts(doc, container)
    IN FirstTruthy([k \in 1..Len(values) |-> normalize_date(values[k])])

(***************************************************************************)
(* The link and its URL                                                    *)
(***************************************************************************)

\* node.find("a", href=True): the first descendant <a> that has an href
\* attribute, whatever its value; 0 for None
FindLink(doc, node) ==
    LET hits == SelectSeq(DescendantTags(doc, node),
                          LAMBDA j : doc[j].tag = "a" /\ "href" \in DOMAIN doc[j].attrs)
    IN IF hits = << >> THEN 0 ELSE hits[1]

\* lines 304-307 of extract_cases
LinkTag(doc, node) ==
    IF doc[node].tag = "a" /\ Truthy(Get(doc[node], "href")) THEN node
    ELSE FindLink(doc, node)

\* the end of scheme://netloc in an absolute URL
OriginEnd(u) ==
    LET start == IF StartsWith(u, <<104,116,116,112,115,58,47,47>>) THEN 9 ELSE 8   \* "https://"
        slashes == {i \in start..Len(u) : u[i] = SLASH}
    IN IF slashes = {} THEN Len(u)
       ELSE (CHOOSE i \in slashes : \A j \in slashes : i <= j) - 1

\* urllib.parse.urljoin(base, href) for an http(s) base and an href without
\* query, fragment, parameters or dot segments: an absolute href stands, a
\* rooted one replaces the base's path, a relative one its last segment.
urljoin(base, href) ==
    LET origin == SubSeq(base, 1, OriginEnd(base))
        path   == SubSeq(base, OriginEnd(base) + 1, Len(base))
        cuts   == {i \in 1..Len(path) : path[i] = SLASH}
        dir    == IF cuts = {} THEN << SLASH >>
                  ELSE SubSeq(path, 1, CHOOSE i \in cuts : \A j \in cuts : j <= i)
    IN IF href = << >> THEN base
       ELSE IF StartsWith(href, <<104,116,116,112,115,58,47,47>>) \/ StartsWith(href, <<104,116,116,112,58,47,47>>) THEN href   \* "https://", "http://"
       ELSE IF StartsWith(href, <<47,47>>)   \* "//"
            THEN SubSeq(base, 1, IF StartsWith(base, <<104,116,116,112,115,58,47,47>>) THEN 6 ELSE 5)   \* "https://"
                    \o href
       ELSE IF href[1] = SLASH THEN origin \o href
       ELSE origin \o dir \o href


(***************************************************************************)
(* Building documents                                                      *)
(***************************************************************************)

\* a forest followed by another
Beside(f1, f2) ==
    f1 \o [k \in 1..Len(f2) |->
              [f2[k] EXCEPT !.parent = IF @ = 0 THEN 0 ELSE @ + Len(f1)]]

RECURSIVE Forest(_)
Forest(frags) ==
    IF frags = << >> THEN << >> ELSE Beside(frags[1], Forest(Tail(frags)))

\* an element with the forest kids as its content
Under(tag, attrs, kids) ==
    << Elem(tag, 0, attrs) >> \o [k \in 1..Len(kids) |-> [kids[k] EXCEPT !.parent = @ + 1]]

\* an element that holds one string (none when the string is empty)
El(tag, attrs, text) ==
    Under(tag, attrs, IF text = << >> THEN << >> ELSE << TextNode(0, text) >>)

\* every sequence over S of length at most n
SeqsUpTo(S, n) == UNION {[1..k -> S] : k \in 0..n}


(***************************************************************************)
(* The three programs share the variables; a program at rest keeps these.  *)
(***************************************************************************)

InitLoadIdle ==
    /\ input_path = "idle" /\ url = << >> /\ fileState = "idle" /\ netState = "idle"
    /\ lpc = "idle" /\ fetched = << >> /\ fileReads = 0 /\ loaded = << >>

InitCasesIdle ==
    /\ soup = << >> /\ base_url = << >> /\ nodes = << >> /\ idx = 0
    /\ results = << >> /\ seen_links = {} /\ log = << >> /\ pc = "idle"

InitDateIdle == raw = None /\ normalized = None /\ dpc = "idle"

(***************************************************************************)
(* Documents the extraction runs on                                        *)
(***************************************************************************)

DEFAULT_BASE_URL == <<104,116,116,112,115,58,47,47,97,100,115,46,118,107,46,99,111,109>>      \* "https://ads.vk.com"
OtherBaseUrl == <<104,116,116,112,115,58,47,47,101,120,97,109,112,108,101,46,99,111,109,47,100,105,114,47,112,97,103,101>>      \* "https://example.com/dir/page"
BaseUrls == {DEFAULT_BASE_URL, OtherBaseUrl}

Attr(name, value) == name :> value

CardAttrs == Attr("data-testid", <<99,97,115,101,45,99,97,114,100>>)   \* "case-card"

Heading(tag, text) == El(tag, NoAttrs, text)

\* Cards of the assembly documents, all located by the first selector.
\* A href "/cases/a", heading, <time> with attribute and text (the card of
\*   test_extract_cases_minimal_html)
CardA ==
    Under("div", CardAttrs,
          Forest(<< Under("a", Attr("href", <<47,99,97,115,101,115,47,97>>) @@ Attr("data-testid", <<99,97,115,101,45,99,97,114,100,45,116,105,116,108,101>>),   \* "/cases/a", "case-card-title"
                          Heading("h3", <<1057,1073,1086,1088,1085,1099,1081,32,1082,1077,1081,1089>>)),   \* "Сборный кейс"
                    El("time", Attr("datetime", <<50,48,50,52,45,48,57,45,50,49>>), <<50,49,32,1089,1077,1085,1090,1103,1073,1088,1103,32,50,48,50,52>>) >>))   \* "2024-09-21", "21 сентября 2024"
\* the same page by an absolute href, another title, no date
CardAAbsolute ==
    Under("div", CardAttrs,
          Forest(<< El("a", Attr("href", <<104,116,116,112,115,58,47,47,97,100,115,46,118,107,46,99,111,109,47,99,97,115,101,115,47,97>>), <<1055,1086,1076,1088,1086,1073,1085,1077,1077>>),   \* "https://ads.vk.com/cases/a", "Подробнее"
                    Heading("h2", <<1050,1077,1081,1089>>) >>))   \* "Кейс"
\* the same page, nothing but a boilerplate phrase for a title
CardAUntitled ==
    Under("div", CardAttrs,
          El("a", Attr("href", <<47,99,97,115,101,115,47,97>>), <<1063,1080,1090,1072,1090,1100,32,1082,1077,1081,1089>>))   \* "/cases/a", "Читать кейс"
\* href "/cases/b", title in the link's title attribute, dotted date
CardB ==
    Under("div", CardAttrs,
          Forest(<< El("a", Attr("href", <<47,99,97,115,101,115,47,98>>) @@ Attr("title", <<1045,1097,1105,32,1082,1077,1081,1089>>), << >>),   \* "/cases/b", "Ещё кейс"
                    El("span", Attr("class", << <<99,97,114,100,45,100,97,116,101>> >>), <<49,55,46,49,50,46,50,48,50,53>>) >>))   \* "card-date", "17.12.2025"
\* a relative href: the page of CardB under DEFAULT_BASE_URL only
CardBRelative ==
    Under("div", CardAttrs,
          Forest(<< El("a", Attr("href", <<99,97,115,101,115,47,98>>), << >>),   \* "cases/b"
                    Heading("h3", <<84,105,116,108,101>>) >>))   \* "Title"
AssemblyCards == { CardA, CardAAbsolute, CardAUntitled, CardB, CardBRelative }

MaxCards == 3

AssemblyDocuments == {Forest(cards) : cards \in SeqsUpTo(AssemblyCards, MaxCards)}

\* Documents for the card locator: cards of each selector and strays.
\* located by .CaseCard
ClassCard ==
    Under("div", Attr("class", << <<67,97,115,101,67,97,114,100>>, <<119,105,100,101>> >>),   \* "CaseCard", "wide"
          Forest(<< El("a", Attr("href", <<47,99,97,115,101,115,47,107>>), << >>),   \* "/cases/k"
                    Heading("h3", <<72,101,97,100>>) >>))   \* "Head"
\* a class that differs in case: only its link is located, by the third selector
LowerClassCard ==
    Under("div", Attr("class", << <<99,97,115,101,99,97,114,100>> >>),   \* "casecard"
          El("a", Attr("href", <<47,99,97,115,101,115,47,109>>) @@ Attr("title", <<65,114,105,97>>), << >>))   \* "/cases/m", "Aria"
\* located by a[href*="/cases/"]
BareLink ==
    El("a", Attr("href", <<104,116,116,112,115,58,47,47,97,100,115,46,118,107,46,99,111,109,47,99,97,115,101,115,47,108>>) @@ Attr("title", <<84,105,116,108,101>>), << >>)   \* "https://ads.vk.com/cases/l", "Title"
\* located by no selector: another test id, a link elsewhere
Stray ==
    Under("div", Attr("data-testid", <<99,97,115,101,45,99,97,114,100,45,116,105,116,108,101>>),   \* "case-card-title"
          El("a", Attr("href", <<47,98,108,111,103,47,99,97,115,101,115>>), <<65,116,116,114>>))   \* "/blog/cases", "Attr"

LocatorElements == { CardA, ClassCard, LowerClassCard, BareLink, Stray }

MaxElements == 3

LocatorDocuments == {Forest(els) : els \in SeqsUpTo(LocatorElements, MaxElements)}

\* Documents of one card for the title: a link, then title-like elements.
TitleLinks ==
    { El("a", Attr("href", <<47,99,97,115,101,115,47,116>>), << >>),   \* "/cases/t"
      El("a", Attr("href", <<47,99,97,115,101,115,47,116>>) @@ Attr("title", <<65,116,116,114>>), << >>),   \* "/cases/t", "Attr"
      \* aria-label "Подробнее", data-title "Aria"
      El("a", Attr("href", <<47,99,97,115,101,115,47,116>>) @@ Attr("aria-label", <<1055,1086,1076,1088,1086,1073,1085,1077,1077>>)   \* "/cases/t", "Подробнее"
                  @@ Attr("data-title", <<65,114,105,97>>), << >>) }   \* "Aria"

TitleElements ==
    { Heading("h3", <<1055,1086,1076,1088,1086,1073,1085,1077,1077>>),                  \* boilerplate
      Heading("h3", <<84,105,116,108,101>>),   \* "Title"
      Heading("h2", <<72,101,97,100>>),   \* "Head"
      Heading("h4", <<1045,1097,1105,32,1082,1077,1081,1089>>),                   \* a heading no selector names
      \* NBSP ЧИТАТЬ NBSP КЕЙС SHY: boilerplate once cleaned and lowered
      Heading("h1", <<160,1063,1048,1058,1040,1058,1068,160,1050,1045,1049,1057,173>>),   \* "<NBSP>ЧИТАТЬ<NBSP>КЕЙС<SHY>"
      El("span", Attr("itemprop", <<110,97,109,101>>), << SOFT_HYPHEN, SPACE, SOFT_HYPHEN >>),   \* "name"
      El("span", Attr("class", << <<99,97,114,100,45,84,105,116,108,101,45,120>> >>), <<1050,1077,1081,1089>>),   \* "card-Title-x", "Кейс"
      Under("button", NoAttrs, Heading("h4", <<66,116,110>>)),   \* "Btn"
      El("div", Attr("role", <<66,117,116,116,111,110>>) @@ Attr("class", << <<72,101,97,100,108,105,110,101>> >>), <<82,111,108,101>>) }   \* "Button", "Headline", "Role"

MaxTitleElements == 2

TitleDocuments ==
    {Under("div", CardAttrs, Forest(<< link >> \o els)) :
        link \in TitleLinks, els \in SeqsUpTo(TitleElements, MaxTitleElements)}

\* Documents of one card for the date: a titled link, then date-like elements.
DateElements ==
    { El("time", Attr("datetime", <<50,48,50,52,45,48,57,45,50,49>>), <<50,50,46,48,57,46,50,48,50,52>>),   \* "2024-09-21", "22.09.2024"
      El("time", Attr("datetime", <<110,111,32,100,97,116,101>>), <<53,32,1084,1072,1103,32,50,48,50,52>>),   \* "no date", "5 мая 2024"
      El("time", NoAttrs, <<51,49,46,48,50,46,50,48,50,48>>),   \* "31.02.2020"
      El("time", Attr("datetime", << SPACE, NBSP >>), << >>),
      El("span", Attr("class", << <<99,97,114,100,45,100,97,116,101>> >>), <<49,55,46,49,50,46,50,48,50,53>>),   \* "card-date", "17.12.2025"
      El("span", Attr("data-testid", <<80,117,98,108,105,115,104,68,97,116,101>>), <<56,32,1092,1077,1074,1088,1072,1083,1103,32,50,48,50,51,32,1075,1086,1076,1072>>),   \* "PublishDate", "8 февраля 2023 года"
      El("span", Attr("class", << <<85,112,100,97,116,101>> >>), <<50,48,50,52,45,49,51,45,52,53>>),   \* "Update", "2024-13-45"
      Under("div", Attr("class", << <<100,97,116,101>> >>),   \* "date"
            El("time", Attr("datetime", <<49,46,50,46,50,48,50,48>>), <<120,32>>)) }   \* "1.2.2020", "x "

MaxDateElements == 2

DateDocuments ==
    {Under("div", CardAttrs,
           Forest(<< El("a", Attr("href", <<47,99,97,115,101,115,47,100>>) @@ Attr("title", <<84,105,116,108,101>>), << >>) >>   \* "/cases/d", "Title"
                      \o els)) :
        els \in SeqsUpTo(DateElements, MaxDateElements)}

\* Documents of one card for the link: the container, then <a> elements.
LinkContainerAttrs ==
    { [tag |-> "div", attrs |-> CardAttrs],
      [tag |-> "a", attrs |-> CardAttrs],
      [tag |-> "a", attrs |-> CardAttrs @@ Attr("href", << >>)],
      [tag |-> "a", attrs |-> CardAttrs @@ Attr("href", <<47,99,97,115,101,115,47,115,101,108,102>>)] }   \* "/cases/self"

LinkElements ==
    { El("a", NoAttrs, <<120,32>>),   \* "x "
      El("a", Attr("href", << >>), <<65,114,105,97>>),   \* "Aria"
      El("a", Attr("href", <<47,99,97,115,101,115,47,120>>), << >>),   \* "/cases/x"
      El("a", Attr("href", <<104,116,116,112,115,58,47,47,97,100,115,46,118,107,46,99,111,109,47,99,97,115,101,115,47,121>>), << >>) }   \* "https://ads.vk.com/cases/y"

MaxLinkElements == 2

LinkDocuments ==
    {Under(c.tag, c.attrs, Forest(els \o << Heading("h3", <<84,105,116,108,101>>) >>)) :   \* "Title"
        c \in LinkContainerAttrs, els \in SeqsUpTo(LinkElements, MaxLinkElements)}

(***************************************************************************)
(* extract_cases as a program: one action per way through the loop body.   *)
(***************************************************************************)

\* absolute_url in seen_links
AlreadySeenNever(absolute_url, seen) == FALSE

AlreadySeen(absolute_url, seen) == absolute_url \in seen

\* results.append(record)
AppendRecordInFront(rs, record) == << record >> \o rs

AppendRecord(rs, record) == Append(rs, record)

\* The base URL matters to the link only: the documents that vary the title
\* or the date of one card are read under DEFAULT_BASE_URL.
InitCases ==
    /\ \/ /\ soup \in AssemblyDocuments \cup LocatorDocuments \cup LinkDocuments
          /\ base_url \in BaseUrls
       \/ /\ soup \in TitleDocuments \cup DateDocuments
          /\ base_url = DEFAULT_BASE_URL
    /\ nodes = << >> /\ idx = 0
    /\ results = << >> /\ seen_links = {} /\ log = << >>
    /\ pc = "parse"
    /\ InitDateIdle /\ InitLoadIdle

\* soup = BeautifulSoup(html); the loop starts over find_case_nodes(soup)
FindCaseNodes ==
    /\ pc = "parse"
    /\ nodes' = find_case_nodes(soup)
    /\ idx' = 1
    /\ pc' = "loop"
    /\ UNCHANGED << soup, base_url, results, seen_links, log, dateVars, loadVars >>

InLoop == pc = "loop" /\ idx <= Len(nodes)

Skip(why) ==
    /\ idx' = idx + 1
    /\ log' = Append(log, why)
    /\ UNCHANGED << soup, base_url, nodes, results, seen_links, pc, dateVars, loadVars >>

\* `if not link_tag: continue`
SkipNoLink ==
    /\ InLoop
    /\ LinkTag(soup, nodes[idx]) = 0
    /\ Skip("no link")

\* `if not href: continue`
SkipNoHref ==
    /\ InLoop
    /\ LinkTag(soup, nodes[idx]) # 0
    /\ ~Truthy(Get(soup[LinkTag(soup, nodes[idx])], "href"))
    /\ Skip("no href")

\* `if absolute_url in seen_links: continue`
SkipSeen ==
    /\ InLoop
    /\ LET link_tag == LinkTag(soup, nodes[idx])
       IN /\ link_tag # 0
          /\ Truthy(Get(soup[link_tag], "href"))
          /\ AlreadySeen(urljoin(base_url, Get(soup[link_tag], "href")), seen_links)
    /\ Skip("seen")

\* `if not title: continue`
SkipNoTitle ==
    /\ InLoop
    /\ LET link_tag == LinkTag(soup, nodes[idx])
       IN /\ link_tag # 0
          /\ Truthy(Get(soup[link_tag], "href"))
          /\ ~AlreadySeen(urljoin(base_url, Get(soup[link_tag], "href")), seen_links)
          /\ ~Truthy(extract_title(soup, nodes[idx], link_tag))
    /\ Skip("no title")

\* results.append({...}); seen_links.add(absolute_url)
Emit ==
    /\ InLoop
    /\ LET node == nodes[idx]
           link_tag == LinkTag(soup, node)
       IN /\ link_tag # 0
          /\ Truthy(Get(soup[link_tag], "href"))
          /\ LET absolute_url == urljoin(base_url, Get(soup[link_tag], "href"))
                 title == extract_title(soup, node, link_tag)
             IN /\ ~AlreadySeen(absolute_url, seen_links)
                /\ Truthy(title)
                /\ results' = AppendRecord(results,
                                  [title |-> title, url |-> absolute_url,
                                   published_at |-> extract_date(soup, node)])
                /\ seen_links' = seen_links \cup {absolute_url}
    /\ idx' = idx + 1
    /\ log' = Append(log, "emitted")
    /\ UNCHANGED << soup, base_url, nodes, pc, dateVars, loadVars >>

\* `return results`
Return ==
    /\ pc = "loop"
    /\ idx > Len(nodes)
    /\ pc' = "done"
    /\ UNCHANGED << soup, base_url, nodes, idx, results, seen_links, log, dateVars, loadVars >>

Next ==
    \/ FindCaseNodes
    \/ SkipNoLink
    \/ SkipNoHref
    \/ SkipSeen
    \/ SkipNoTitle
    \/ Emit
    \/ Return

Spec == InitCases /\ [][Next]_vars


(***************************************************************************)
(* Properties of extract_cases                                             *)
(***************************************************************************)

Processed == 1..Len(log)

\* the record container k produced, for a k with log[k] = "emitted"
RecordOf(k) == results[Cardinality({m \in 1..k : log[m] = "emitted"})]

\* the URL the link of container k resolves to, None without a usable link
ResolvedUrl(k) ==
    LET link_tag == LinkTag(soup, nodes[k])
    IN IF link_tag # 0 /\ Truthy(Get(soup[link_tag], "href"))
       THEN urljoin(base_url, Get(soup[link_tag], "href"))
       ELSE None

\* a title is recovered from container k
Titled(k) ==
    /\ LinkTag(soup, nodes[k]) # 0
    /\ Truthy(extract_title(soup, nodes[k], LinkTag(soup, nodes[k])))

Least(S) == CHOOSE x \in S : \A y \in S : x <= y

\* C1: in every state of a run (after any prefix of the containers) no two
\* records of the result list have the same url.
C1_UniqueUrls ==
    \A i, j \in 1..Len(results) : i # j => results[i].url # results[j].url

\* two containers of the same resolved URL were met and the second was dropped
C1_Witness ==
    /\ pc = "done"
    /\ Len(results) >= 2
    /\ \E k \in Processed : log[k] = "seen"

\* for each located container the URL its link resolves to, None without a
\* usable link
\* (the concatenation makes the table a sequence whose entries are computed once)
Occurrences == [k \in 1..Len(nodes) |-> ResolvedUrl(k)] \o << >>

\* the same, for the containers that yield a title; None for the others
TitledOccurrences ==
    [k \in 1..Len(nodes) |-> IF Titled(k) THEN ResolvedUrl(k) ELSE None] \o << >>

\* for each record the first container of the table that has its URL
FirstOf(table) ==
    [i \in 1..Len(results) |-> Least({k \in 1..Len(nodes) : table[k] = results[i].url})]
        \o << >>

\* C2 as stated: the records are ordered as the first containers of their
\* URLs are, a first container that yields no title included.
C2_OrderOfFirstOccurrence ==
    pc = "done" =>
        LET table == Occurrences
            first == FirstOf(table)
        IN \A i, j \in 1..Len(results) : i < j <=> first[i] < first[j]

\* C2 (amended): the records are ordered as the first containers of their URLs
\* that yield a title are; a container without a title does not count as an
\* occurrence of its URL.
C2_OrderOfFirstTitledOccurrence ==
    LET table == TitledOccurrences
        first == FirstOf(table)
    IN \A i, j \in 1..Len(results) : i < j <=> first[i] < first[j]

\* a URL whose first container has no title, emitted from a later container
\* after another record
C2_Witness ==
    /\ pc = "done"
    /\ LET all == Occurrences
           withTitle == TitledOccurrences
           first == FirstOf(all)
           titled == FirstOf(withTitle)
       IN \E i \in 2..Len(results) : first[i] < titled[i]

\* no element of container k and no title attribute of its link holds a
\* title: a text that is not empty and not a boilerplate phrase once cleaned
NoTitleAnywhere(k) ==
    LET acceptable(t) == Truthy(t) /\ _clean_text(t) # << >>
                            /\ Lower(_clean_text(t)) \notin GENERIC_TITLE_STRINGS
        tags == DescendantTags(soup, nodes[k])
        link == LinkTag(soup, nodes[k])
    IN /\ \A n \in 1..Len(tags) : ~acceptable(get_text_stripped(soup, tags[n]))
       /\ link # 0 => \A a \in 1..Len(TitleAttrs) : ~acceptable(Get(soup[link], TitleAttrs[a]))

\* no date text of container k normalizes
NoDate(k) ==
    LET values == iter_date_texts(soup, nodes[k])
    IN \A n \in 1..Len(values) : normalize_date(values[n]) = None

\* C3: every record's title is non-empty, already normalized and no
\* boilerplate phrase in any letter case; a container with no title produces
\* no record; a container with a title, a usable link and a new URL produces
\* one even without a parseable date, with published_at None.
C3_TitleRequiredDateOptional ==
    /\ \A i \in 1..Len(results) :
          /\ Truthy(results[i].title)
          /\ _clean_text(results[i].title) = results[i].title
          /\ Lower(results[i].title) \notin GENERIC_TITLE_STRINGS
    /\ \A k \in Processed :
          /\ NoTitleAnywhere(k) => log[k] # "emitted"
          /\ (/\ Titled(k)
              /\ ResolvedUrl(k) # None
              /\ \A m \in 1..(k - 1) : log[m] = "emitted" => RecordOf(m).url # ResolvedUrl(k))
                 => /\ log[k] = "emitted"
                    /\ NoDate(k) => RecordOf(k).published_at = None

\* one container dropped for want of a title, another emitted without a date
C3_Witness ==
    /\ pc = "done"
    /\ \E k \in Processed : log[k] = "no title" /\ NoTitleAnywhere(k)
    /\ \E k \in Processed :
          log[k] = "emitted" /\ NoDate(k) /\ RecordOf(k).published_at = None

\* the elements each selector of the card locator names
ByTestId ==
    {j \in 1..Len(soup) : IsTag(soup[j]) /\ Get(soup[j], "data-testid") = <<99,97,115,101,45,99,97,114,100>>}   \* "case-card"
ByClass ==
    {j \in 1..Len(soup) : IsTag(soup[j]) /\ \E n \in 1..Len(ClassTokens(soup[j])) :
                                               ClassTokens(soup[j])[n] = <<67,97,115,101,67,97,114,100>>}   \* "CaseCard"
ByHref ==
    {j \in 1..Len(soup) : /\ soup[j].tag = "a"
                          /\ Get(soup[j], "href") # None
                          /\ Contains(Get(soup[j], "href"), <<47,99,97,115,101,115,47>>)}   \* "/cases/"

Located ==
    IF ByTestId # {} THEN ByTestId ELSE IF ByClass # {} THEN ByClass ELSE ByHref

\* C5: the located containers are the matches of the first selector of the
\* list that matches anything, each once, in document order; nothing when no
\* selector matches.
C5_FirstMatchingSelector ==
    pc \in {"loop", "done"} =>
        /\ {nodes[k] : k \in 1..Len(nodes)} = Located
        /\ \A k \in 1..(Len(nodes) - 1) : nodes[k] < nodes[k + 1]

\* the class selector decides while the link selector matches other elements
C5_Witness ==
    /\ pc = "loop"
    /\ ByTestId = {} /\ ByClass # {} /\ ByHref \ ByClass # {}
    /\ nodes # << >>

\* the link C7 describes for container k: the container when it is an <a>
\* with a non-empty href, else its first descendant <a> with a non-empty
\* href; 0 when there is none
FirstUsableLink(k) ==
    LET node == nodes[k]
        usable == SelectSeq(DescendantTags(soup, node),
                            LAMBDA j : soup[j].tag = "a" /\ Truthy(Get(soup[j], "href")))
    IN IF soup[node].tag = "a" /\ Truthy(Get(soup[node], "href")) THEN node
       ELSE IF usable = << >> THEN 0 ELSE usable[1]

\* C7 as stated: a container is skipped for want of a link only when no <a>
\* in it has a non-empty href, and a record's url is that of the first usable
\* link, an earlier <a> with an empty href being passed over.
C7_FirstUsableLinkIsUsed ==
    \A k \in Processed :
        /\ log[k] \in {"no link", "no href"} <=> FirstUsableLink(k) = 0
        /\ log[k] = "emitted" =>
              RecordOf(k).url = urljoin(base_url, Get(soup[FirstUsableLink(k)], "href"))

\* the titles C8 describes for the first stage: for each selector in order,
\* every element it matches inside the container
EveryMatchTitles(doc, container) ==
    Join([s \in 1..Len(TitleSelectors) |->
             LET hits == SelectSeq(DescendantTags(doc, container),
                                   LAMBDA j : Matches(doc[j], TitleSelectors[s]))
             IN [n \in 1..Len(hits) |-> TitleOfTag(doc, hits[n])]], << >>)

TitleAsClaimed(k) ==
    LET link == LinkTag(soup, nodes[k])
    IN FirstTruthy(EveryMatchTitles(soup, nodes[k]) \o LinkAttrTitles(soup, link)
                       \o HeadingTitles(soup, nodes[k]))

\* C8 as stated: the title is the first acceptable candidate among every
\* match of every selector, then the link's attributes, then the heading-like
\* descendants; a container is dropped for want of a title only when none is
\* acceptable.
C8_EveryMatchOfASelectorIsTried ==
    \A k \in Processed :
        /\ log[k] = "emitted" => RecordOf(k).title = TitleAsClaimed(k)
        /\ log[k] = "no title" => TitleAsClaimed(k) = None

\* the date texts C9 lists for container k, as they stand in the document:
\* per <time> element its datetime attribute and its text, then the text of
\* every element with 'date' in a class token or in the test id
DateTextsAsClaimed(k) ==
    LET tags  == DescendantTags(soup, nodes[k])
        times == SelectSeq(tags, LAMBDA j : soup[j].tag = "time")
        marked(j) ==
            \/ \E n \in 1..Len(ClassTokens(soup[j])) :
                  Contains(Lower(ClassTokens(soup[j])[n]), <<100,97,116,101>>)   \* "date"
            \/ /\ Get(soup[j], "data-testid") # None
               /\ Contains(Lower(Get(soup[j], "data-testid")), <<100,97,116,101>>)   \* "date"
        dated == SelectSeq(tags, marked)
    IN Join([n \in 1..Len(times) |->
                (IF Get(soup[times[n]], "datetime") # None
                 THEN << Get(soup[times[n]], "datetime") >> ELSE << >>)
                    \o << get_text(soup, times[n]) >>], << >>)
        \o [n \in 1..Len(dated) |-> get_text(soup, dated[n])]

\* C9: a record's published_at is the normalization of the first date text,
\* in the order above, that normalizes; texts that do not are passed over;
\* it is None exactly when none does.
C9_FirstParseableDateText ==
    \A k \in Processed :
        log[k] = "emitted" =>
            LET texts == DateTextsAsClaimed(k)
            IN RecordOf(k).published_at
                   = FirstTruthy([n \in 1..Len(texts) |-> normalize_date(texts[n])])

\* a record whose date comes from a later text after the first one failed
C9_Witness ==
    /\ pc = "done"
    /\ \E k \in Processed :
          /\ log[k] = "emitted"
          /\ Len(DateTextsAsClaimed(k)) >= 2
          /\ normalize_date(DateTextsAsClaimed(k)[1]) = None
          /\ RecordOf(k).published_at # None

(***************************************************************************)
(* normalize_date as a program: one call on one raw string.                *)
(***************************************************************************)

\* The raw strings normalize_date is called on.  Years are 0000 or at least
\* 1000 (see FormatDate).
DotDays ==
    {
      <<49>>,   \* '1'
      <<49,55>>,   \* '17'
      <<51,49>>,   \* '31'
      <<48,48>>,   \* '00'
      <<50,57>>    \* '29'
    }
DotMonths ==
    {
      <<50>>,   \* '2'
      <<48,50>>,   \* '02'
      <<49,50>>,   \* '12'
      <<49,51>>,   \* '13'
      <<48,54>>    \* '06'
    }
DotYears ==
    {
      <<50,48,50,48>>,   \* '2020'
      <<50,48,50,53>>,   \* '2025'
      <<49,57,48,48>>,   \* '1900'
      <<48,48,48,48>>    \* '0000'
    }
DateSeparators == { << PERIOD >>, << SLASH >> }
\* What may follow a date: nothing, noise, or a date of the Russian grammar.
DateTails ==
    {
      <<>>,   \* ''
      <<32,101,120,116,114,97,32,116,101,120,116>>,   \* ' extra text'
      <<32,54,32,1084,1072,1103,32,50,48,50,52>>    \* ' 6 мая 2024'
    }
DotInputs ==
    {d \o s1 \o m \o s2 \o y \o tail :
        d \in DotDays, s1 \in DateSeparators, m \in DotMonths, s2 \in DateSeparators,
        y \in DotYears, tail \in DateTails}
IsoMonths ==
    {
      <<48,51>>,   \* '03'
      <<49,51>>,   \* '13'
      <<48,50>>,   \* '02'
      <<48,48>>,   \* '00'
      <<51>>    \* '3'
    }
IsoDays ==
    {
      <<48,49>>,   \* '01'
      <<51,49>>,   \* '31'
      <<51,48>>,   \* '30'
      <<48,48>>    \* '00'
    }
IsoInputs ==
    {pre \o <<50,48,50,52>> \o << HYPHEN >> \o m \o << HYPHEN >> \o d \o tail :   \* "2024"
        pre \in {<< >>, << NBSP >>, << SOFT_HYPHEN >>},
        m \in IsoMonths, d \in IsoDays, tail \in DateTails}
RuPrefixes ==
    {
      <<>>,   \* ''
      <<120,32>>,   \* 'x '
      <<49>>,   \* '1'
      <<8201>>    \* 'THIN'
    }
RuDays ==
    {
      <<53>>,   \* '5'
      <<49,50>>,   \* '12'
      <<51,49>>,   \* '31'
      <<57,57>>,   \* '99'
      <<48>>    \* '0'
    }
RuSpaces ==
    {
      <<32>>,   \* ' '
      <<160>>,   \* 'NBSP'
      <<32,160>>    \* ' NBSP'
    }
RuMonths ==
    {
      <<1089,1077,1085,1090,1103,1073,1088,1103>>,   \* 'сентября'
      <<1089,1077,1085,1090,46>>,   \* 'сент.'
      <<1052,1072,1103>>,   \* 'Мая'
      <<1092,1077,1074,1088,1072,1083,1103>>,   \* 'февраля'
      <<1084,1072,1088,1090,1086,1073,1088,1103>>,   \* 'мартобря'
      <<1105,1083,1082,1072>>,   \* 'ёлка'
      <<1044,1077,1082,1072,1073,1088,1100>>,   \* 'Декабрь'
      <<45,1084,1072,1103>>,   \* '-мая'
      <<1048,1070,1051,1068,46,46>>    \* 'ИЮЛЬ..'
    }
RuYears ==
    {
      <<50,48,50,52>>,   \* '2024'
      <<48,48,48,48>>    \* '0000'
    }
RuSuffixes ==
    {
      <<>>,   \* ''
      <<32,1075,46>>,   \* ' г.'
      <<32,1075,1086,1076,1072>>    \* ' года'
    }
RuInputs ==
    {pre \o d \o ws \o m \o ws \o y \o suf \o tail :
        pre \in RuPrefixes, d \in RuDays, ws \in RuSpaces, m \in RuMonths,
        y \in RuYears, suf \in RuSuffixes, tail \in {<< >>, <<32,54,32,1084,1072,1103,32,50,48,50,52>>}}   \* " 6 мая 2024"
OtherInputs ==
    {
      <<>>,   \* ''
      <<32>>,   \* ' '
      <<160,173>>,   \* 'NBSPSHY'
      <<110,111,32,100,97,116,101>>,   \* 'no date'
      <<50,49,32,83,101,112,116,101,109,98,101,114,32,50,48,50,52>>,   \* '21 September 2024'
      <<49,50,51,32,1084,1072,1103,32,50,48,50,52>>,   \* '123 мая 2024'
      <<50,48,50,52>>,   \* '2024'
      <<53,32,1084,1072,1103>>    \* '5 мая'
    }
DateInputs == {None} \cup OtherInputs \cup IsoInputs \cup DotInputs \cup RuInputs

InitDate ==
    /\ raw \in DateInputs
    /\ normalized = None
    /\ dpc = "call"
    /\ InitLoadIdle /\ InitCasesIdle

\* normalize_date(raw)
NormalizeDate ==
    /\ dpc = "call"
    /\ normalized' = normalize_date(raw)
    /\ dpc' = "done"
    /\ UNCHANGED << raw, loadVars, caseVars >>

NextDate == NormalizeDate

SpecDate == InitDate /\ [][NextDate]_vars


\* the string the grammars are matched on
Cleaned == _clean_text(raw)

\* s is YYYY-MM-DD and names a day of the calendar
IsCalendarDateString(s) ==
    /\ Len(s) = 10
    /\ AllDigits(s, 1, 4) /\ s[5] = HYPHEN /\ AllDigits(s, 6, 2) /\ s[8] = HYPHEN
    /\ AllDigits(s, 9, 2)
    /\ ValidDate(ParseInt(SubSeq(s, 1, 4)), ParseInt(SubSeq(s, 6, 7)),
                 ParseInt(SubSeq(s, 9, 10)))

\* C4 as stated: whatever the grammar, a result of normalize_date is a
\* YYYY-MM-DD string that names a real calendar date; an impossible date
\* gives no result.
C4_EveryResultIsACalendarDate ==
    dpc = "done" /\ normalized # None => IsCalendarDateString(normalized)

\* C10: the first grammar, in the order ISO, dotted, Russian, that matches
\* the cleaned string structurally decides the result: the ISO prefix as it
\* stands; else the dotted date if it is a calendar date and no result if it
\* is not; else the leftmost Russian date if its month word is known and it
\* is a calendar date, and no result if not.  No later grammar and no later
\* occurrence is tried after a failure.
C10_FirstStructuralMatchDecides ==
    dpc = "done" /\ Truthy(raw) /\ Cleaned # << >> =>
        IF IsoMatch(Cleaned) THEN normalized = SubSeq(Cleaned, 1, 10)
        ELSE IF DotMatch(Cleaned)
             THEN LET g == DotGroups(Cleaned)
                  IN IF ValidDate(g.year, g.month, g.day)
                     THEN normalized = Pad4(g.year) \o << HYPHEN >> \o Pad2(g.month)
                                           \o << HYPHEN >> \o Pad2(g.day)
                     ELSE normalized = None
        ELSE IF RuMatch(Cleaned)
             THEN LET g == RuGroups(Cleaned)
                      month == MONTHS_RU(_normalize_month_token(g.month))
                  IN IF month # 0 /\ ValidDate(g.year, month, g.day)
                     THEN normalized = Pad4(g.year) \o << HYPHEN >> \o Pad2(month)
                                           \o << HYPHEN >> \o Pad2(g.day)
                     ELSE normalized = None
        ELSE normalized = None

\* a dotted date that is no calendar date, followed by a Russian date that
\* is one: no result
C10_Witness ==
    /\ dpc = "done" /\ Truthy(raw)
    /\ ~IsoMatch(Cleaned) /\ DotMatch(Cleaned)
    /\ ~ValidDate(DotGroups(Cleaned).year, DotGroups(Cleaned).month, DotGroups(Cleaned).day)
    /\ RuMatch(Cleaned) /\ RuResult(Cleaned) # None
    /\ normalized = None

(***************************************************************************)
(* load_html_source as a program.  An Optional value is << >> (None) or    *)
(* << v >>; a path is the sequence of its components as they were written. *)
(***************************************************************************)

DEFAULT_CASES_URL == "https://ads.vk.com/cases"

\* Path(...): pathlib drops "." components and the empty ones of a doubled
\* slash and keeps the root of an absolute path (a leading empty component);
\* two paths are equal when what is left is.
Path(parts) ==
    (IF parts # << >> /\ parts[1] = "" THEN << "/" >> ELSE << >>)
        \o SelectSeq(parts, LAMBDA c : c # "." /\ c # "")

DEFAULT_INPUT_PATH == Path(<< "data", "cases.html" >>)

\* `if url:`
UrlGiven(u) == u # << >> /\ u[1] # ""

\* `if input_path == DEFAULT_INPUT_PATH:` in the handler of FileNotFoundError
IsDefaultInputAnyPath(path) == TRUE

IsDefaultInput(path) == Path(path) = DEFAULT_INPUT_PATH

\* what fetch_html_from_url returns for a URL and input_path.read_text for a file
PageOf(u) == << "html of", u >>
FILE_TEXT == << "html of file" >>

InputPaths ==
    { << "data", "cases.html" >>,
      << ".", "data", "cases.html" >>,
      << "data", "", "cases.html" >>,
      << "custom.html" >>,
      << "", "data", "cases.html" >> }

Urls == { << >>, << "" >>, << "https://example.com" >>, << "https://ads.vk.com/cases" >> }

InitLoad ==
    /\ input_path \in InputPaths
    /\ url \in Urls
    /\ fileState \in {"readable", "missing", "denied"}
    /\ netState \in {"up", "down"}
    /\ lpc = "call"
    /\ fetched = << >> /\ fileReads = 0 /\ loaded = << >>
    /\ InitDateIdle /\ InitCasesIdle

\* fetch_html_from_url(u) as the last step of the call: the page is
\* returned with source, or the exception of requests leaves the call
Fetch(u, source) ==
    /\ fetched' = Append(fetched, u)
    /\ IF netState = "up"
       THEN lpc' = "returned" /\ loaded' = << PageOf(u), source >>
       ELSE lpc' = "raised" /\ loaded' = << "RequestException" >>

\* `if url: return fetch_html_from_url(url, timeout=timeout), url`
LoadUrl ==
    /\ lpc = "call"
    /\ UrlGiven(url)
    /\ Fetch(url[1], url)
    /\ UNCHANGED << input_path, url, fileState, netState, fileReads, dateVars, caseVars >>

\* `html = input_path.read_text(...); return html, None`
LoadFile ==
    /\ lpc = "call"
    /\ ~UrlGiven(url)
    /\ fileState = "readable"
    /\ fileReads' = fileReads + 1
    /\ loaded' = << FILE_TEXT, << >> >>
    /\ lpc' = "returned"
    /\ UNCHANGED << input_path, url, fileState, netState, fetched, dateVars, caseVars >>

\* read_text raises something other than FileNotFoundError
LoadFileDenied ==
    /\ lpc = "call"
    /\ ~UrlGiven(url)
    /\ fileState = "denied"
    /\ fileReads' = fileReads + 1
    /\ loaded' = << "PermissionError" >>
    /\ lpc' = "raised"
    /\ UNCHANGED << input_path, url, fileState, netState, fetched, dateVars, caseVars >>

\* FileNotFoundError for the default path: download DEFAULT_CASES_URL
LoadDefaultPage ==
    /\ lpc = "call"
    /\ ~UrlGiven(url)
    /\ fileState = "missing"
    /\ IsDefaultInput(input_path)
    /\ fileReads' = fileReads + 1
    /\ Fetch(DEFAULT_CASES_URL, << DEFAULT_CASES_URL >>)
    /\ UNCHANGED << input_path, url, fileState, netState, dateVars, caseVars >>

\* FileNotFoundError for any other path: `raise`
LoadMissing ==
    /\ lpc = "call"
    /\ ~UrlGiven(url)
    /\ fileState = "missing"
    /\ ~IsDefaultInput(input_path)
    /\ fileReads' = fileReads + 1
    /\ loaded' = << "FileNotFoundError" >>
    /\ lpc' = "raised"
    /\ UNCHANGED << input_path, url, fileState, netState, fetched, dateVars, caseVars >>

NextLoad ==
    \/ LoadUrl
    \/ LoadFile
    \/ LoadFileDenied
    \/ LoadDefaultPage
    \/ LoadMissing

SpecLoad == InitLoad /\ [][NextLoad]_vars

\* the input path names data/cases.html relative to the working directory
NamesDefaultFile(path) ==
    SelectSeq(path, LAMBDA c : c \notin {".", ""}) = << "data", "cases.html" >>
        /\ path[1] # ""

\* C6: with a (non-empty) URL the URL is fetched and returned as the source
\* and the file is not read; without one a readable file is returned with
\* source None and nothing is fetched; a missing file is replaced by the
\* default cases page, returned with its URL as the source, only when the
\* input path is the default one, and for any other path FileNotFoundError
\* leaves the call and nothing is fetched.
C6_SourceChoice ==
    lpc \in {"returned", "raised"} =>
        /\ UrlGiven(url) =>
              /\ fetched = url /\ fileReads = 0
              /\ lpc = "returned" => loaded = << PageOf(url[1]), url >>
        /\ ~UrlGiven(url) /\ fileState = "readable" =>
              lpc = "returned" /\ loaded = << FILE_TEXT, << >> >> /\ fetched = << >>
        /\ ~UrlGiven(url) /\ fileState = "missing" /\ NamesDefaultFile(input_path) =>
              /\ fetched = << DEFAULT_CASES_URL >>
              /\ lpc = "returned" =>
                    loaded = << PageOf(DEFAULT_CASES_URL), << DEFAULT_CASES_URL >> >>
        /\ ~UrlGiven(url) /\ fileState = "missing" /\ ~NamesDefaultFile(input_path) =>
              lpc = "raised" /\ loaded = << "FileNotFoundError" >> /\ fetched = << >>

\* a missing custom file: the error has left the call and nothing was fetched
C6_Witness ==
    /\ lpc = "raised"
    /\ ~UrlGiven(url) /\ fileState = "missing" /\ ~NamesDefaultFile(input_path)
    /\ loaded = << "FileNotFoundError" >> /\ fetched = << >>

====
